---- MODULE Spec2Model ----
(***************************************************************************)
(* Model of qualifier.py: valid_input (the validator), rearrange_tiles     *)
(* (the rearranger) and the driver loop that calls rearrange_tiles over a  *)
(* list of jobs.                                                           *)
(*                                                                         *)
(* Conventions.  Python tuples and lists are TLA+ sequences, so the        *)
(* Python index k is the TLA+ index k+1: image_size[0] (height) is         *)
(* image_size[1] here, tile_size[1] is tile_size[2] here.  A pixel buffer  *)
(* is a record [shape, px] with px a function over 0-based (row, column)   *)
(* pairs; one value of px stands for the whole channel vector of a pixel,  *)
(* which every slice of the code carries along unsplit.  A file is <<>>    *)
(* when absent and <<buffer>> when present (PNG is lossless, the decoded   *)
(* array is the encoded one).                                              *)
(***************************************************************************)
EXTENDS Integers, Sequences, FiniteSets

MaxDim == 4
MaxLen == 4
MaxDupLen == 2

Dims == 1..MaxDim
Sizes == Dims \X Dims
OrderingValues == (0 - 1)..(MaxLen - 1)
Orderings == UNION {[1..n -> OrderingValues] : n \in 0..MaxLen}

VARIABLES image_size, tile_size, ordering, ret,
          images, idx, pc, fs, err, trace, copies

validVars == <<image_size, tile_size, ordering, ret>>
mainVars == <<images, idx, pc, fs, err, trace, copies>>
vars == <<image_size, tile_size, ordering, ret,
          images, idx, pc, fs, err, trace, copies>>

(***************************************************************************)
(* Python and numpy primitives                                             *)
(***************************************************************************)
Range(s) == {s[i] : i \in 1..Len(s)}

Max(a, b) == IF a >= b THEN a ELSE b

\* len(set(ordering))
SetLen(o) == Cardinality(Range(o))

\* One bound of a Python slice over an axis of length n: a negative bound
\* counts from the end, and the result is clipped to [0, n].
SliceBound(x, n) ==
    IF x < 0 THEN (IF x + n < 0 THEN 0 ELSE x + n)
    ELSE (IF x > n THEN n ELSE x)

\* a[start : stop] over an axis of length n: first index and length.
Slice(start, stop, n) ==
    LET lo == SliceBound(start, n)
        hi == SliceBound(stop, n)
    IN [lo |-> lo, len |-> IF hi > lo THEN hi - lo ELSE 0]

\* numpy broadcasting of one source axis onto one destination axis.
Broadcastable(srcLen, dstLen) == srcLen = dstLen \/ srcLen = 1

\* np.zeros(shape, dtype=np.uint8)
Zeros(shape) ==
    [shape |-> shape,
     px |-> [p \in (0..(shape[1] - 1)) \X (0..(shape[2] - 1)) |-> 0]]

(***************************************************************************)
(* valid_input                                                             *)
(***************************************************************************)
\* tiles = (image_size[0] * image_size[1]) / (tile_size[0] * tile_size[1]),
\* a true division: kept as numerator and denominator.
Tiles(isz, ts) == [num |-> isz[1] * isz[2], den |-> ts[1] * ts[2]]

\* tiles.is_integer()
IsInteger(q) == q.num % q.den = 0

\* tiles != len(ordering)
DiffersFromLen(q, o) == q.num # Len(o) * q.den

\* Variants of valid_input with one check wrong.
\* The divisibility test pairs each image dimension with the other tile
\* dimension.
valid_input_swapped(isz, ts, o) ==
    IF isz[1] % ts[2] # 0 \/ isz[2] % ts[1] # 0 THEN FALSE
    ELSE IF ~(SetLen(o) = Len(o)) THEN FALSE
    ELSE IF ~IsInteger(Tiles(isz, ts)) THEN FALSE
    ELSE IF DiffersFromLen(Tiles(isz, ts), o) THEN FALSE
    ELSE TRUE

\* The per-dimension divisibility test is left to tiles.is_integer().
valid_input_area_only(isz, ts, o) ==
    IF ~(SetLen(o) = Len(o)) THEN FALSE
    ELSE IF ~IsInteger(Tiles(isz, ts)) THEN FALSE
    ELSE IF DiffersFromLen(Tiles(isz, ts), o) THEN FALSE
    ELSE TRUE

\* The test for repeated values is missing.
valid_input_no_repeat_check(isz, ts, o) ==
    IF isz[1] % ts[1] # 0 \/ isz[2] % ts[2] # 0 THEN FALSE
    ELSE IF ~IsInteger(Tiles(isz, ts)) THEN FALSE
    ELSE IF DiffersFromLen(Tiles(isz, ts), o) THEN FALSE
    ELSE TRUE

valid_input(isz, ts, o) ==
    IF isz[1] % ts[1] # 0 \/ isz[2] % ts[2] # 0 THEN FALSE
    ELSE IF ~(SetLen(o) = Len(o)) THEN FALSE
    ELSE IF ~IsInteger(Tiles(isz, ts)) THEN FALSE
    ELSE IF DiffersFromLen(Tiles(isz, ts), o) THEN FALSE
    ELSE TRUE

(***************************************************************************)
(* rearrange_tiles                                                         *)
(***************************************************************************)
NoError == [type |-> "None", msg |-> ""]
PathError == [type |-> "ValueError", msg |-> "The image path does not exist"]
InputError ==
    [type |-> "ValueError",
     msg |-> "The tile size or ordering are not valid for the given image"]
BroadcastError ==
    [type |-> "ValueError", msg |-> "could not broadcast input array"]

\* rows = m // tile_size[1], columns = m // tile_size[0], m = max(image_size)
Rows(isz, ts) == Max(isz[1], isz[2]) \div ts[2]
Columns(isz, ts) == Max(isz[1], isz[2]) \div ts[1]

\* Variant of DstR that takes the remainder where the code takes the
\* quotient.
DstR_mod(isz, ts, index) == (index % Rows(isz, ts)) * ts[2]

\* The four offsets of one loop iteration (index is the Python index).
DstR(isz, ts, index) == (index \div Rows(isz, ts)) * ts[2]
DstC(isz, ts, index) == (index % Columns(isz, ts)) * ts[1]
SrcR(isz, ts, tile_index) == (tile_index \div Rows(isz, ts)) * ts[2]
SrcC(isz, ts, tile_index) == (tile_index % Columns(isz, ts)) * ts[1]

\* unscrambled_array[r : r + ts[0], c : c + ts[1]] =
\*     image[image_r : image_r + ts[0], image_c : image_c + ts[1]]
\* The slices are clipped to the buffer; the assignment broadcasts the source
\* block onto the destination block or raises.
SetItem(un, image, ts, r, c, image_r, image_c) ==
    LET h == image.shape[1]
        w == image.shape[2]
        dr == Slice(r, r + ts[1], h)
        dc == Slice(c, c + ts[2], w)
        sr == Slice(image_r, image_r + ts[1], h)
        sc == Slice(image_c, image_c + ts[2], w)
        Src(p) == <<sr.lo + (IF sr.len = 1 THEN 0 ELSE p[1] - dr.lo),
                    sc.lo + (IF sc.len = 1 THEN 0 ELSE p[2] - dc.lo)>>
        InDst(p) == /\ dr.lo <= p[1] /\ p[1] < dr.lo + dr.len
                    /\ dc.lo <= p[2] /\ p[2] < dc.lo + dc.len
    IN IF Broadcastable(sr.len, dr.len) /\ Broadcastable(sc.len, dc.len)
       THEN [ok |-> TRUE,
             buf |-> [un EXCEPT !.px =
                        [p \in DOMAIN un.px |->
                            IF InDst(p) THEN image.px[Src(p)] % 256
                            ELSE un.px[p]]]]
       ELSE [ok |-> FALSE, buf |-> un]

\* for index, tile_index in enumerate(ordering): ...   from position k on
\* (k is the TLA+ position, the Python index is k - 1).  log collects the
\* offsets <<r, c, image_r, image_c>> of every iteration entered.
RECURSIVE CopyLoop(_, _, _, _, _, _)
CopyLoop(un, image, ts, o, k, log) ==
    IF k > Len(o) THEN [ok |-> TRUE, buf |-> un, log |-> log]
    ELSE LET isz == image.shape
             r == DstR(isz, ts, k - 1)
             c == DstC(isz, ts, k - 1)
             image_r == SrcR(isz, ts, o[k])
             image_c == SrcC(isz, ts, o[k])
             step == SetItem(un, image, ts, r, c, image_r, image_c)
             log2 == Append(log, <<r, c, image_r, image_c>>)
         IN IF step.ok THEN CopyLoop(step.buf, image, ts, o, k + 1, log2)
            ELSE [ok |-> FALSE, buf |-> un, log |-> log2]

\* Variants of rearrange_tiles with one step wrong.
\* The output buffer is allocated and saved before the input is validated.
rearrange_tiles_late_check(f, image_path, ts, o, out_path) ==
    IF f[image_path] = <<>>
    THEN [fs |-> f, err |-> PathError, trace |-> <<"exists">>, copies |-> <<>>]
    ELSE LET image == f[image_path][1]
             isz == image.shape
         IN IF ~valid_input(isz, ts, o)
            THEN [fs |-> [f EXCEPT ![out_path] = <<Zeros(isz)>>],
                  err |-> InputError,
                  trace |-> <<"exists", "open", "zeros", "save",
                              "valid_input">>,
                  copies |-> <<>>]
            ELSE LET loop == CopyLoop(Zeros(isz), image, ts, o, 1, <<>>)
                 IN IF loop.ok
                    THEN [fs |-> [f EXCEPT ![out_path] = <<loop.buf>>],
                          err |-> NoError,
                          trace |-> <<"exists", "open", "valid_input",
                                      "zeros", "copy", "save">>,
                          copies |-> loop.log]
                    ELSE [fs |-> f, err |-> BroadcastError,
                          trace |-> <<"exists", "open", "valid_input",
                                      "zeros", "copy">>,
                          copies |-> loop.log]

\* The existence test is missing: the decoder is the first to find the file
\* absent and raises its own error.
rearrange_tiles_no_exists_check(f, image_path, ts, o, out_path) ==
    IF f[image_path] = <<>>
    THEN [fs |-> f,
          err |-> [type |-> "FileNotFoundError",
                   msg |-> "No such file or directory"],
          trace |-> <<"open">>, copies |-> <<>>]
    ELSE LET image == f[image_path][1]
             isz == image.shape
         IN IF ~valid_input(isz, ts, o)
            THEN [fs |-> f, err |-> InputError,
                  trace |-> <<"exists", "open", "valid_input">>,
                  copies |-> <<>>]
            ELSE LET loop == CopyLoop(Zeros(isz), image, ts, o, 1, <<>>)
                 IN IF loop.ok
                    THEN [fs |-> [f EXCEPT ![out_path] = <<loop.buf>>],
                          err |-> NoError,
                          trace |-> <<"exists", "open", "valid_input",
                                      "zeros", "copy", "save">>,
                          copies |-> loop.log]
                    ELSE [fs |-> f, err |-> BroadcastError,
                          trace |-> <<"exists", "open", "valid_input",
                                      "zeros", "copy">>,
                          copies |-> loop.log]

\* The whole call on file system f: the new file system, the error raised
\* (NoError on return), the steps taken in order and the loop's log.
rearrange_tiles(f, image_path, ts, o, out_path) ==
    IF f[image_path] = <<>>
    THEN [fs |-> f, err |-> PathError, trace |-> <<"exists">>, copies |-> <<>>]
    ELSE LET image == f[image_path][1]
             isz == image.shape
         IN IF ~valid_input(isz, ts, o)
            THEN [fs |-> f, err |-> InputError,
                  trace |-> <<"exists", "open", "valid_input">>,
                  copies |-> <<>>]
            ELSE LET loop == CopyLoop(Zeros(isz), image, ts, o, 1, <<>>)
                 IN IF loop.ok
                    THEN [fs |-> [f EXCEPT ![out_path] = <<loop.buf>>],
                          err |-> NoError,
                          trace |-> <<"exists", "open", "valid_input",
                                      "zeros", "copy", "save">>,
                          copies |-> loop.log]
                    ELSE [fs |-> f, err |-> BroadcastError,
                          trace |-> <<"exists", "open", "valid_input",
                                      "zeros", "copy">>,
                          copies |-> loop.log]

(***************************************************************************)
(* Inputs                                                                  *)
(***************************************************************************)
Paths == {"in.png", "out.png", "back.png"}

\* An image whose pixels are pairwise distinct and nonzero, so that a pixel
\* of the output tells which pixel of the input it was copied from and
\* whether it was written at all.
Labelled(shape) ==
    [shape |-> shape,
     px |-> [p \in (0..(shape[1] - 1)) \X (0..(shape[2] - 1)) |->
                (p[1] * shape[2] + p[2] + 1) % 256]]

Images == {Labelled(s) : s \in Sizes}

IsPermutation(o) == Range(o) = 0..(Len(o) - 1) /\ SetLen(o) = Len(o)

Identity(n) == [i \in 1..n |-> i - 1]

\* The inverse of a permutation o of 0..Len(o)-1.
Inverse(o) == [j \in 1..Len(o) |-> (CHOOSE i \in 1..Len(o) : o[i] = j - 1) - 1]

TestInfo(image_path, ts, o, out_path) ==
    [scrambled_image_path |-> image_path, tile_size |-> ts, ordering |-> o,
     unscrambled_image_path |-> out_path]

\* The orderings the driver is run on: every ordering without a repeated
\* value (in range or not, of the right length or not), and the orderings
\* with a repeated value up to length MaxDupLen.  valid_input rejects a
\* repeated value whatever the image; SpecValid draws from all of Orderings.
JobOrderings == {o \in Orderings : SetLen(o) = Len(o) \/ Len(o) <= MaxDupLen}

\* The lists the driver is run on: one job, or one job followed by the job
\* that undoes it.
JobLists ==
    {<<TestInfo("in.png", ts, o, "out.png")>> :
        ts \in Sizes, o \in JobOrderings}
    \cup
    {<<TestInfo("in.png", ts, o, "out.png"),
       TestInfo("out.png", ts, Inverse(o), "back.png")>> :
        ts \in Sizes, o \in {q \in Orderings : IsPermutation(q)}}

(***************************************************************************)
(* The driver: for t in images: rearrange_tiles(...)                       *)
(***************************************************************************)
Init ==
    /\ images \in JobLists
    /\ idx = 1
    /\ pc = "loop"
    /\ \E f \in {<<>>} \cup {<<i>> : i \in Images} :
          fs = [p \in Paths |-> IF p = "in.png" THEN f ELSE <<>>]
    /\ err = NoError
    /\ trace = <<>>
    /\ copies = <<>>
    /\ image_size = <<1, 1>>
    /\ tile_size = <<1, 1>>
    /\ ordering = <<>>
    /\ ret = <<>>

Main ==
    /\ pc = "loop"
    /\ idx <= Len(images)
    /\ LET t == images[idx]
           res == rearrange_tiles(fs, t.scrambled_image_path, t.tile_size,
                                  t.ordering, t.unscrambled_image_path)
       IN /\ fs' = res.fs
          /\ err' = res.err
          /\ trace' = res.trace
          /\ copies' = res.copies
          /\ pc' = IF res.err = NoError THEN "loop" ELSE "raised"
    /\ idx' = idx + 1
    /\ UNCHANGED <<images, validVars>>

Next == Main

Spec == Init /\ [][Next]_vars

(***************************************************************************)
(* valid_input on its own                                                  *)
(***************************************************************************)
InitValid ==
    /\ image_size \in Sizes
    /\ tile_size \in Sizes
    /\ ordering \in Orderings
    /\ ret = <<>>
    /\ images = <<>>
    /\ idx = 1
    /\ pc = "valid"
    /\ fs = [p \in Paths |-> <<>>]
    /\ err = NoError
    /\ trace = <<>>
    /\ copies = <<>>

ValidInput ==
    /\ pc = "valid"
    /\ ret = <<>>
    /\ ret' = <<valid_input(image_size, tile_size, ordering)>>
    /\ UNCHANGED <<image_size, tile_size, ordering, mainVars>>

NextValid == ValidInput

SpecValid == InitValid /\ [][NextValid]_vars

(***************************************************************************)
(* Properties of valid_input (checked under SpecValid)                     *)
(***************************************************************************)
Returned == ret # <<>>

Divides(isz, ts) == isz[1] % ts[1] = 0 /\ isz[2] % ts[2] = 0

\* len(ordering) is exactly (height * width) / (th * tw)
LenIsTileCount(isz, ts, o) == Len(o) * ts[1] * ts[2] = isz[1] * isz[2]

HasRepeat(o) == \E i, j \in 1..Len(o) : i # j /\ o[i] = o[j]

\* C1: when the tile size divides both image dimensions and the ordering is
\* a permutation of [0, tileCount), valid_input returns True.
C1_PermutationAccepted ==
    (/\ Returned
     /\ Divides(image_size, tile_size)
     /\ IsPermutation(ordering)
     /\ LenIsTileCount(image_size, tile_size, ordering))
    => ret = <<TRUE>>

\* A non-identity permutation of four non-square tiles of a non-square
\* image was accepted.
C1_Witness ==
    /\ ret = <<TRUE>>
    /\ image_size = <<2, 4>>
    /\ tile_size = <<1, 2>>
    /\ ordering = <<3, 1, 0, 2>>

\* C2: whenever valid_input returns True the ordering is a permutation of
\* [0, tileCount): its length is tileCount and its values are exactly
\* 0 .. tileCount-1.
C2_AcceptedIsPermutation ==
    ret = <<TRUE>>
    => /\ LenIsTileCount(image_size, tile_size, ordering)
       /\ Range(ordering) = 0..(Len(ordering) - 1)

\* C7: when the tile size does not divide one of the image dimensions,
\* valid_input returns False whatever the ordering.
C7_NonDividingRejected ==
    (Returned /\ ~Divides(image_size, tile_size)) => ret = <<FALSE>>

\* The tile does not divide the image, yet the ordering has no repeat and
\* its length equals (height * width) / (th * tw); it was rejected.
C7_Witness ==
    /\ ret = <<FALSE>>
    /\ ~Divides(image_size, tile_size)
    /\ ~HasRepeat(ordering)
    /\ LenIsTileCount(image_size, tile_size, ordering)

\* C8: valid_input returns True only if the ordering has no repeated value
\* and its length equals the tile count.
C8_RepeatOrLengthRejected ==
    ret = <<TRUE>>
    => /\ ~HasRepeat(ordering)
       /\ LenIsTileCount(image_size, tile_size, ordering)

\* An ordering of the right length over a dividing tile size was rejected,
\* its repeated value being the only defect.
C8_Witness ==
    /\ ret = <<FALSE>>
    /\ Divides(image_size, tile_size)
    /\ LenIsTileCount(image_size, tile_size, ordering)
    /\ HasRepeat(ordering)
    /\ Range(ordering) \subseteq 0..(Len(ordering) - 1)

(***************************************************************************)
(* Properties of rearrange_tiles (checked under Spec)                      *)
(***************************************************************************)
\* The job of the call that has just ended, its decoded input (a file the
\* call does not write: the output path differs) and the first job.
Called == idx > 1
Last == images[idx - 1]
LastFile == fs[Last.scrambled_image_path]
LastImage == LastFile[1]
Job1 == images[1]
Original == fs["in.png"][1]
Steps == Range(trace)

\* C3: with the identity ordering, on any accepted image and tile size, the
\* output buffer equals the input buffer pixel for pixel.
C3_IdentityKeepsImage ==
    (/\ Called
     /\ fs["in.png"] # <<>>
     /\ valid_input(Original.shape, Job1.tile_size, Job1.ordering)
     /\ Job1.ordering = Identity(Len(Job1.ordering)))
    => fs["out.png"] = fs["in.png"]

\* C4: rearranging with an accepted permutation O and then rearranging the
\* result with the inverse of O gives back the original image.
C4_RoundTrip ==
    (/\ Len(images) = 2
     /\ fs["in.png"] # <<>>
     /\ valid_input(Original.shape, Job1.tile_size, Job1.ordering)
     /\ (idx = 3 \/ pc = "raised"))
    => fs["back.png"] = fs["in.png"]

\* C5: when valid_input returns False for the decoded image, the call raises
\* the invalid-input error before the output buffer is allocated and before
\* anything is saved; the output path stays absent.
C5_InvalidInputRaisesBeforeWrite ==
    (/\ Called
     /\ LastFile # <<>>
     /\ ~valid_input(LastImage.shape, Last.tile_size, Last.ordering))
    => /\ err = InputError
       /\ pc = "raised"
       /\ "zeros" \notin Steps
       /\ "save" \notin Steps
       /\ fs[Last.unscrambled_image_path] = <<>>

\* A 4x4 image with 3x3 tiles was refused.
C5_Witness ==
    /\ idx = 2
    /\ fs["in.png"] # <<>>
    /\ Original.shape = <<4, 4>>
    /\ Job1.tile_size = <<3, 3>>
    /\ err = InputError
    /\ fs["out.png"] = <<>>

\* C6 as stated: a missing image path raises, before any decode and before
\* validation, an error of a kind distinct from the invalid-input error,
\* and no output file is created.
C6_NotFoundIsDistinctKind ==
    (Called /\ LastFile = <<>>)
    => /\ err # NoError
       /\ err.type # InputError.type
       /\ trace = <<"exists">>
       /\ fs[Last.unscrambled_image_path] = <<>>

\* C6 as amended: a missing image path raises, before any decode and before
\* validation, a ValueError (the class of the invalid-input error) whose
\* message "The image path does not exist" differs from the invalid-input
\* message, and no output file is created.
C6_MissingPathRaisesValueError ==
    (Called /\ LastFile = <<>>)
    => /\ err = PathError
       /\ err.type = InputError.type
       /\ err.msg # InputError.msg
       /\ pc = "raised"
       /\ trace = <<"exists">>
       /\ fs[Last.unscrambled_image_path] = <<>>

\* The driver was run on a missing in.png with an otherwise fine job.
C6_Witness ==
    /\ idx = 2
    /\ fs["in.png"] = <<>>
    /\ Job1.ordering = <<1, 0, 3, 2>>
    /\ Job1.tile_size = <<2, 2>>
    /\ err = PathError
    /\ fs["out.png"] = <<>>

\* C9: on a square image with square tiles and a permutation ordering, with
\* g = height / th tiles per row and per column, the output tile at grid
\* cell (i div g, i mod g) is the input tile at grid cell
\* (ordering[i] div g, ordering[i] mod g), for every i.
C9_SquareTilesPlaced ==
    (/\ Called
     /\ fs["in.png"] # <<>>
     /\ Original.shape[1] = Original.shape[2]
     /\ Job1.tile_size[1] = Job1.tile_size[2]
     /\ Divides(Original.shape, Job1.tile_size)
     /\ IsPermutation(Job1.ordering)
     /\ LenIsTileCount(Original.shape, Job1.tile_size, Job1.ordering))
    => /\ fs["out.png"] # <<>>
       /\ LET t == Job1.tile_size[1]
              g == Original.shape[1] \div t
              o == Job1.ordering
              out == fs["out.png"][1]
          IN /\ out.shape = Original.shape
             /\ \A i \in 0..(Len(o) - 1) : \A dy, dx \in 0..(t - 1) :
                  out.px[<<(i \div g) * t + dy, (i % g) * t + dx>>] =
                  Original.px[<<(o[i + 1] \div g) * t + dy,
                                (o[i + 1] % g) * t + dx>>]

\* A 4x4 image with 2x2 tiles and ordering [1, 0, 3, 2] has been rearranged:
\* the quadrants are swapped pairwise, left with right.
C9_Witness ==
    /\ idx = 2
    /\ fs["in.png"] # <<>>
    /\ Original.shape = <<4, 4>>
    /\ Job1.tile_size = <<2, 2>>
    /\ Job1.ordering = <<1, 0, 3, 2>>
    /\ fs["out.png"] # <<>>
    /\ LET out == fs["out.png"][1]
       IN /\ out.px[<<0, 0>>] = Original.px[<<0, 2>>]
          /\ out.px[<<1, 3>>] = Original.px[<<1, 1>>]
          /\ out.px[<<2, 0>>] = Original.px[<<2, 2>>]
          /\ out.px[<<3, 3>>] = Original.px[<<3, 1>>]

\* The th x tw block at offset (r, c) lies inside an image of shape isz.
BlockInside(isz, ts, r, c) ==
    /\ 0 <= r /\ r + ts[1] <= isz[1]
    /\ 0 <= c /\ c + ts[2] <= isz[2]

\* Pixel p lies in the th x tw block at offset (r, c).
InBlock(ts, r, c, p) ==
    /\ r <= p[1] /\ p[1] < r + ts[1]
    /\ c <= p[2] /\ p[2] < c + ts[2]

\* C10: on every accepted input, every iteration of the copy loop reads and
\* writes a full th x tw block inside the image, and the destination blocks
\* are pairwise disjoint and cover the buffer: each pixel is written by
\* exactly one iteration.  Stated on the accepted inputs whose ordering is
\* a permutation, the ones valid_input is meant to accept.
C10_CopiesTileTheImage ==
    (/\ Called
     /\ LastFile # <<>>
     /\ valid_input(LastImage.shape, Last.tile_size, Last.ordering)
     /\ IsPermutation(Last.ordering))
    => /\ Len(copies) = Len(Last.ordering)
       /\ \A k \in 1..Len(copies) :
            /\ BlockInside(LastImage.shape, Last.tile_size,
                           copies[k][1], copies[k][2])
            /\ BlockInside(LastImage.shape, Last.tile_size,
                           copies[k][3], copies[k][4])
       /\ \A p \in DOMAIN LastImage.px :
            Cardinality({k \in 1..Len(copies) :
                InBlock(Last.tile_size, copies[k][1], copies[k][2], p)}) = 1

====
